---- MODULE Spec2Model ----
(***************************************************************************)
(* Model of scripts/ctd_hysteresis_test.py: the CTD hysteresis QC driver.  *)
(* main() walks the deployments of the argument list; for each one it      *)
(* walks the sorted list of profile files, pairs a down profile with the   *)
(* up profile that follows it and writes a <sensor>_hysteresis_test flag   *)
(* variable into the files.                                                *)
(*                                                                         *)
(* Conventions of the model                                                *)
(*  - Python lists are 0-based, TLA+ sequences 1-based: the loop counter   *)
(*    e and the file index i are the Python values plus one.               *)
(*  - An optional value (an unbound local, an unreadable file, a missing   *)
(*    dictionary key) is a set: {} for "nothing", {x} for the value x.     *)
(*  - Measurements, pressures and thresholds are integers; NaN is the      *)
(*    reserved number below.  Timestamps are minutes.                      *)
(*  - shapely's polygon area, divided by the pressure range, is an input   *)
(*    of the step: any number in 0..MaxArea, but the same number whenever  *)
(*    the polygon points are the same (geometry remembers them).           *)
(*  - A second call of main (run = 2) starts from fresh locals over the    *)
(*    files on disk; earlier keeps what the first call left.               *)
(***************************************************************************)
EXTENDS Integers, Sequences, FiniteSets, TLC

\* ------------------------------------------------------------------ bounds
MaxFiles == 4          \* files per deployment in the driver family
MaxArea == 5           \* largest normalised area the geometry may return
MaxDeployments == 2    \* deployments of the argument list in the multi family

\* ------------------------------------------------------- program constants
NaN == -99             \* np.nan
GOOD == 1              \* qartod.QartodFlags.GOOD
UNKNOWN == 2
SUSPECT == 3
FAIL == 4
MISSING == 9           \* qartod.QartodFlags.MISSING
PairWindow == 5        \* np.timedelta64(5, 'm')
MinPressureRange == 5  \* pressure_range > 5

test_varnames == <<"conductivity", "temperature">>
Sensors == {"conductivity", "temperature"}

\* ------------------------------------------------------------ small helpers
IsNaN(x) == x = NaN
Bound(v) == v # {}
Val(v) == CHOOSE x \in v : TRUE
SetMax(S) == CHOOSE x \in S : \A y \in S : y <= x
SetMin(S) == CHOOSE x \in S : \A y \in S : x <= y
Indices(a) == 1..Len(a)
NoFlags == <<>>        \* the dataset has no <sensor>_hysteresis_test variable

\* --------------------------------------------------------------- the state
VARIABLES
  deployments,  \* args.deployments: per deployment its directories, configuration and profile files
  disk,         \* disk[dep][j]: what file j of deployment dep holds now ({} when it cannot be read)
  pc,           \* "deployment", "file", "sensor", "done" (main returned) or "raised" (an exception left main)
  d,            \* position in the deployment loop
  e,            \* enumerate() counter of the file loop
  i,            \* index of the primary file (i += skip)
  tv,           \* position in test_varnames
  skip,         \* local skip
  f2skip,       \* local f2skip ({} while unbound)
  ds,           \* dataset of the primary file ({} while unbound)
  ds2,          \* dataset of the second file ({} while unbound)
  config_dict,  \* loadconfig(config_file)
  status,       \* value main returns
  summary,      \* summary[sensor][counter]
  errlog,       \* the kinds of error logged so far (logging.error)
  exc,          \* name of the exception that left main ("" when none)
  opened,       \* history: primary open attempts [dep, e, file]
  consumed,     \* history: f2skip += 1 events [dep, e, file, sensor]
  reads,        \* history: successful reads [dep, e, file, role]
  writes,       \* history: to_netcdf calls [dep, e, path, from, sensor]
  last,         \* history: the latest sensor step: its deployment, iteration, primary
                \* file and sensor, whether it built the polygon, the normalised area
                \* and the flag it assigned (0: none), what it added to the sensor's counters
  geometry,     \* the normalised areas shapely has returned so far, by polygon points
  run,          \* 1 in the first run of main, 2 in a second run over the same directories
  earlier       \* what the first run left behind, once a second run has started

vars == <<deployments, disk, pc, d, e, i, tv, skip, f2skip, ds, ds2, config_dict,
          status, summary, errlog, exc, opened, consumed, reads, writes, last,
          geometry, run, earlier>>

\* ---------------------------------------------------------- the data model
\* A profile file as it is found on disk before the run.
\*   readable : xr.open_dataset succeeds
\*   gap      : minutes from the previous file's last timestamp to this file's first
\*   pressure : ds.pressure.values
\*   vars[s]  : present (s in ds), data (ds[s].values), qartod (the arrays of the
\*              variables whose name contains '<s>_qartod')
\* A dataset, in memory or on disk, is [dep, src, hyst]: the profile it was read
\* from and, per sensor, the <sensor>_hysteresis_test array it carries (NoFlags
\* when it has none).  The measurements of a dataset never change.
Source(dataset) == deployments[dataset.dep].files[dataset.src]
Pressure(dataset) == Source(dataset).pressure
HasVar(dataset, s) == Source(dataset).vars[s].present
Data(dataset, s) == Source(dataset).vars[s].data

\* The flag variables of sensor s in a dataset, by the part of their name that
\* follows the sensor name.
DataVars(dataset, s) ==
  {[name |-> "_qartod", values |-> q] : q \in Source(dataset).vars[s].qartod}
  \cup (IF dataset.hyst[s] = NoFlags THEN {}
        ELSE {[name |-> "_hysteresis_test", values |-> dataset.hyst[s]]})

\* Timestamps: one sample a minute; EndTime(dep, 0) is the time before the first
\* file of deployment dep, deployments following one another.
RECURSIVE EndTime(_, _)
EndTime(dep, j) ==
  IF j = 0
    THEN IF dep = 1 THEN 0 ELSE EndTime(dep - 1, Len(deployments[dep - 1].files))
    ELSE LET f == deployments[dep].files[j]
         IN EndTime(dep, j - 1) + f.gap + Len(f.pressure) - 1
StartTime(dep, j) == EndTime(dep, j - 1) + deployments[dep].files[j].gap
TimeFirst(dataset) == StartTime(dataset.dep, dataset.src)   \* ds.time.values[0]
TimeLast(dataset) == EndTime(dataset.dep, dataset.src)      \* ds.time.values[-1]

\* ------------------------------------------------------ the pure functions
\* apply_qartod_qc: a copy of the data with NaN wherever a '<s>_qartod' variable
\* is SUSPECT or FAIL.
\* mutant of QartodVars: every flag variable of the sensor is applied
QartodVarsAnyFlag(dataset, s) == DataVars(dataset, s)

QartodVars(dataset, s) ==
  {v \in DataVars(dataset, s) : v.name = "_qartod"}

\* mutant of apply_qartod_qc: only FAIL masks a sample
apply_qartod_qc_fail_only(dataset, s) ==
  [k \in Indices(Data(dataset, s)) |->
     IF \E qv \in QartodVars(dataset, s) : qv.values[k] = FAIL
       THEN NaN ELSE Data(dataset, s)[k]]

apply_qartod_qc(dataset, s) ==
  [k \in Indices(Data(dataset, s)) |->
     IF \E qv \in QartodVars(dataset, s) : qv.values[k] = SUSPECT \/ qv.values[k] = FAIL
       THEN NaN ELSE Data(dataset, s)[k]]

\* initialize_flags: (non_nan_i, press_non_nan_ind, flags)
InitialFlag(x) == IF IsNaN(x) THEN MISSING ELSE UNKNOWN

initialize_flags(dataset, s) ==
  [data_idx     |-> {k \in Indices(Data(dataset, s)) : ~IsNaN(Data(dataset, s)[k])},
   pressure_idx |-> {k \in Indices(Pressure(dataset)) : ~IsNaN(Pressure(dataset)[k])},
   flag_vals    |-> [k \in Indices(Data(dataset, s)) |-> InitialFlag(Data(dataset, s)[k])]]

\* ds.pressure.values[pressure_idx][0] and [-1]
FirstPressure(dataset, pressure_idx) == Pressure(dataset)[SetMin(pressure_idx)]
LastPressure(dataset, pressure_idx) == Pressure(dataset)[SetMax(pressure_idx)]

\* mutant of PrimaryIsUp: the comparison is reversed
PrimaryIsUpReversed(dataset, pressure_idx) ==
  FirstPressure(dataset, pressure_idx) < LastPressure(dataset, pressure_idx)

\* line 227: the primary profile is an up profile
PrimaryIsUp(dataset, pressure_idx) ==
  FirstPressure(dataset, pressure_idx) > LastPressure(dataset, pressure_idx)

\* line 264: the second profile is a down profile
SecondIsDown(dataset, pressure_idx) ==
  FirstPressure(dataset, pressure_idx) < LastPressure(dataset, pressure_idx)

\* mutant of WithinWindow: a gap of exactly five minutes still pairs
WithinWindowInclusive(first, second) == TimeFirst(second) - TimeLast(first) <= PairWindow

\* line 274: a paired yo
WithinWindow(first, second) == TimeFirst(second) - TimeLast(first) < PairWindow

\* lines 284-287: the rows <<pressure, value>> of one profile that survive dropna
RECURSIVE RowsFrom(_, _, _)
RowsFrom(p, copy, k) ==
  IF k > Len(copy) THEN <<>>
  ELSE (IF IsNaN(p[k]) \/ IsNaN(copy[k]) THEN <<>> ELSE << <<p[k], copy[k]>> >>)
       \o RowsFrom(p, copy, k + 1)
Rows(dataset, copy) == RowsFrom(Pressure(dataset), copy, 1)

\* mutant of Clamp: negative pressures are kept
ClampNothing(p) == p

\* lines 290-291
Clamp(p) == IF p < 0 THEN 0 ELSE p

\* lines 292-293
PressureRange(df) ==
  LET pressure_copy == {Clamp(df[k][1]) : k \in Indices(df)}
  IN SetMax(pressure_copy) - SetMin(pressure_copy)
DataRange(df) ==
  LET values == {df[k][2] : k \in Indices(df)}
  IN SetMax(values) - SetMin(values)

\* mutant of Classify: SUSPECT is tested before FAIL
ClassifySuspectFirst(area, data_range, th) ==
  IF area > data_range * th.suspect_threshold THEN SUSPECT
  ELSE IF area > data_range * th.fail_threshold THEN FAIL
  ELSE GOOD

\* mutant of Classify: the last branch keeps UNKNOWN instead of assigning GOOD
ClassifyNoGood(area, data_range, th) ==
  IF area > data_range * th.fail_threshold THEN FAIL
  ELSE IF area > data_range * th.suspect_threshold THEN SUSPECT
  ELSE UNKNOWN

\* lines 312-322: area is valid_polygons.area / pressure_range
Classify(area, data_range, th) ==
  IF area > data_range * th.fail_threshold THEN FAIL
  ELSE IF area > data_range * th.suspect_threshold THEN SUSPECT
  ELSE GOOD

\* mutant of SetFlags: the flag is written to every sample
SetFlagsEverywhere(flag_vals, data_idx, flag) ==
  [k \in Indices(flag_vals) |-> flag]

\* lines 323-324: flag_vals[data_idx] = flag
SetFlags(flag_vals, data_idx, flag) ==
  [k \in Indices(flag_vals) |-> IF k \in data_idx THEN flag ELSE flag_vals[k]]

\* line 282: np.sum(~np.isnan(data_copy)) > 0
HasData(copy) == \E k \in Indices(copy) : ~IsNaN(copy[k])

\* mutant of DeepEnough: a range of exactly 5 runs the test
DeepEnoughInclusive(pressure_range) == pressure_range >= MinPressureRange

\* line 299
DeepEnough(pressure_range) == pressure_range > MinPressureRange

\* mutant of Measurable: a data range equal to test_threshold runs the test
MeasurableInclusive(data_range, th) == data_range >= th.test_threshold

\* line 300
Measurable(data_range, th) == data_range > th.test_threshold

\* mutant of NextSkip: the skip counter never grows
NextSkipNever(f2skip_, skip_) == skip_

\* lines 179-183: skip grows by one when the previous pass left f2skip above zero
NextSkip(f2skip_, skip_) ==
  IF Bound(f2skip_) /\ Val(f2skip_) > 0 THEN skip_ + 1 ELSE skip_

\* ------------------------------------------------- the body of the sensor loop
\* The locals a pass of the sensor loop reads and writes, as one record.
Locals ==
  [ds |-> ds, ds2 |-> ds2, disk |-> disk, f2skip |-> f2skip, status |-> status,
   summary |-> summary, errlog |-> errlog, exc |-> "", consumed |-> consumed,
   reads |-> reads, writes |-> writes,
   polygon |-> FALSE, points |-> <<>>, flag |-> 0, area |-> 0]

ncfiles == deployments[d].files

\* logging.error(...); status = 1
LogError(L, kind) == [L EXCEPT !.status = 1, !.errlog = @ \cup {kind}]

\* an exception no handler of main catches
Raise(L, name) == [L EXCEPT !.exc = name]

\* summary[testvar][counter] += n
Count(L, s, counter, n) == [L EXCEPT !.summary[s][counter] = @ + n]

\* f2skip += 1, for file j
SkipNext(L, s, j) ==
  [L EXCEPT !.f2skip = {Val(@) + 1},
            !.consumed = Append(@, [dep |-> d, e |-> e, file |-> j, sensor |-> s])]

\* save_ds: the flag array becomes a variable of the dataset, and the dataset is
\* written to path j.  which is "ds" or "ds2".
save_ds(L, which, flag_array, s, j) ==
  LET dataset == [Val(L[which]) EXCEPT !.hyst[s] = flag_array]
  IN [L EXCEPT ![which] = {dataset},
               !.disk[d][j] = {dataset},
               !.writes = Append(@, [dep |-> d, e |-> e, path |-> j, sensor |-> s,
                                     from |-> <<dataset.dep, dataset.src>>])]

\* lines 242-248: open the second file; on OSError ds2 keeps what it was bound to
OpenSecond(L, s, j) ==
  IF Bound(L.disk[d][j])
    THEN [L EXCEPT !.ds2 = L.disk[d][j],
                   !.reads = Append(@, [dep |-> d, e |-> e, file |-> j, role |-> "second"])]
    ELSE SkipNext(LogError(L, "read"), s, j)

\* lines 276-345: a down profile followed by an up profile within the window
PairBranch(L, s, th, area, init, init2) ==
  LET first == Val(L.ds)
      second == Val(L.ds2)
      data_copy == apply_qartod_qc(first, s)
      data_copy2 == apply_qartod_qc(second, s)
      df == Rows(first, data_copy) \o Rows(second, data_copy2)
  IN IF HasData(data_copy) /\ HasData(data_copy2)
       THEN IF df = <<>>
              THEN Raise(L, "ValueError")      \* np.nanmax of an empty array
              ELSE LET pressure_range == PressureRange(df)
                       data_range == DataRange(df)
                       deep == DeepEnough(pressure_range)
                       polygon == deep /\ Measurable(data_range, th)
                       flag == IF polygon THEN Classify(area, data_range, th) ELSE GOOD
                       flag_vals == IF deep THEN SetFlags(init.flag_vals, init.data_idx, flag)
                                    ELSE init.flag_vals
                       flag_vals2 == IF deep THEN SetFlags(init2.flag_vals, init2.data_idx, flag)
                                     ELSE init2.flag_vals
                       L1 == IF polygon /\ flag = FAIL THEN Count(L, s, "failed_profiles", 2)
                             ELSE IF polygon /\ flag = SUSPECT
                               THEN Count(L, s, "suspect_profiles", 2)
                             ELSE L
                       L2 == [L1 EXCEPT !.polygon = polygon,
                                        !.points = IF polygon THEN df ELSE <<>>,
                                        !.area = IF polygon THEN area ELSE 0,
                                        !.flag = IF deep THEN flag ELSE 0]
                       L3 == save_ds(L2, "ds", flag_vals, s, i)
                       L4 == save_ds(L3, "ds2", flag_vals2, s, i + 1)
                       L5 == IF \E k \in Indices(flag_vals) : flag_vals[k] = UNKNOWN
                               THEN Count(L4, s, "unknown_profiles", 2) ELSE L4
                   IN SkipNext(L5, s, i + 1)
       ELSE SkipNext(Count(save_ds(save_ds(L, "ds", init.flag_vals, s, i),
                                   "ds2", init2.flag_vals, s, i + 1),
                           s, "unknown_profiles", 2), s, i + 1)

\* lines 346-352: down then up, but too far apart in time
FarBranch(L, s, init, init2) ==
  SkipNext(Count(save_ds(save_ds(L, "ds", init.flag_vals, s, i),
                         "ds2", init2.flag_vals, s, i + 1),
                 s, "unknown_profiles", 2), s, i + 1)

\* mutant of OnlyFirst: the file after the primary is marked consumed as well
OnlyFirstConsumes(L, s, init) ==
  SkipNext(Count(save_ds(L, "ds", init.flag_vals, s, i), s, "unknown_profiles", 1), s, i + 1)

\* mutant of OnlyFirst: the profile is counted twice
OnlyFirstCountsTwo(L, s, init) ==
  Count(save_ds(L, "ds", init.flag_vals, s, i), s, "unknown_profiles", 2)

\* flags left UNKNOWN on the primary file alone
OnlyFirst(L, s, init) ==
  Count(save_ds(L, "ds", init.flag_vals, s, i), s, "unknown_profiles", 1)

\* lines 242-352: the primary is a down profile and a next file exists
SecondFile(L, s, th, area, init) ==
  LET L1 == OpenSecond(L, s, i + 1)
  IN IF ~Bound(L1.ds2) THEN Raise(L1, "UnboundLocalError")
     ELSE IF ~HasVar(Val(L1.ds2), s) THEN OnlyFirst(LogError(L1, "variable"), s, init)
     ELSE LET init2 == initialize_flags(Val(L1.ds2), s)
          IN IF init2.pressure_idx = {} THEN Raise(L1, "IndexError")
             ELSE IF SecondIsDown(Val(L1.ds2), init2.pressure_idx) THEN OnlyFirst(L1, s, init)
             ELSE IF WithinWindow(Val(L1.ds), Val(L1.ds2))
               THEN PairBranch(L1, s, th, area, init, init2)
             ELSE FarBranch(L1, s, init, init2)

\* lines 200-352: one pass of "for testvar in test_varnames"
SensorBody(L, s, area) ==
  IF ~Bound(config_dict[s]) THEN Raise(L, "KeyError")
  ELSE IF ~HasVar(Val(L.ds), s) THEN LogError(L, "variable")
  ELSE LET init == initialize_flags(Val(L.ds), s)
       IN IF init.data_idx = {} THEN LogError(L, "nodata")
          ELSE IF init.pressure_idx = {} THEN Raise(L, "IndexError")
          ELSE IF PrimaryIsUp(Val(L.ds), init.pressure_idx) THEN OnlyFirst(L, s, init)
          ELSE IF i + 1 > Len(ncfiles) THEN OnlyFirst(L, s, init)
          ELSE SecondFile(L, s, Val(config_dict[s]), area, init)

\* ------------------------------------------------------------- the actions
ZeroCounters == [failed_profiles |-> 0, suspect_profiles |-> 0, unknown_profiles |-> 0]

NoAreas == [points \in {} |-> 0]
NoRun == [disk |-> <<>>, summary |-> <<>>, written |-> {}, changed |-> ""]

NoStep == [dep |-> 0, e |-> 0, i |-> 0, sensor |-> "", polygon |-> FALSE,
           area |-> 0, flag |-> 0, counted |-> ZeroCounters]

ZeroSummary ==
  [s \in Sensors |-> ZeroCounters]

\* lines 119-176: the head of "for deployment in args.deployments", up to the file loop
DeploymentStep ==
  /\ pc = "deployment"
  /\ d <= Len(deployments)
  /\ LET dep == deployments[d]
     IN IF ~dep.located                      \* lines 124-130: continue
          THEN /\ errlog' = errlog \cup {"location"}
               /\ d' = d + 1
               /\ UNCHANGED <<pc, status, config_dict, summary, skip, e>>
        ELSE IF ~Bound(dep.config)           \* lines 149-152
          THEN /\ errlog' = errlog \cup {"config"}
               /\ status' = 1
               /\ d' = d + 1
               /\ UNCHANGED <<pc, config_dict, summary, skip, e>>
        ELSE IF Len(dep.files) = 0           \* lines 160-163
          THEN /\ errlog' = errlog \cup {"nofiles"}
               /\ status' = 1
               /\ d' = d + 1
               /\ config_dict' = Val(dep.config)
               /\ UNCHANGED <<pc, summary, skip, e>>
        ELSE /\ config_dict' = Val(dep.config)
             /\ summary' = ZeroSummary
             /\ skip' = 0
             /\ e' = 1
             /\ pc' = "file"
             /\ UNCHANGED <<d, status, errlog>>
  /\ UNCHANGED <<deployments, disk, i, tv, f2skip, ds, ds2, exc, opened, consumed,
                 reads, writes, last, geometry, run, earlier>>

\* lines 177-197: the head of "for i, f in enumerate(ncfiles)"
FileStep ==
  /\ pc = "file"
  /\ e <= Len(ncfiles)
  /\ LET newskip == NextSkip(f2skip, skip)
         idx == e + newskip
     IN /\ skip' = newskip
        /\ i' = idx
        /\ IF idx > Len(ncfiles)             \* IndexError: continue
             THEN /\ e' = e + 1
                  /\ UNCHANGED <<pc, tv, f2skip, ds, status, errlog, opened, reads>>
           ELSE IF ~Bound(disk[d][idx])      \* OSError: continue
             THEN /\ e' = e + 1
                  /\ status' = 1
                  /\ errlog' = errlog \cup {"read"}
                  /\ opened' = Append(opened, [dep |-> d, e |-> e, file |-> idx])
                  /\ UNCHANGED <<pc, tv, f2skip, ds, reads>>
           ELSE /\ ds' = disk[d][idx]
                /\ f2skip' = {0}
                /\ tv' = 1
                /\ pc' = "sensor"
                /\ opened' = Append(opened, [dep |-> d, e |-> e, file |-> idx])
                /\ reads' = Append(reads, [dep |-> d, e |-> e, file |-> idx, role |-> "first"])
                /\ UNCHANGED <<e, status, errlog>>
  /\ UNCHANGED <<deployments, disk, d, ds2, config_dict, summary, exc, consumed,
                 writes, last, geometry, run, earlier>>

\* lines 301-310: the area shapely computes is a function of the polygon points:
\* the same points give the area they gave before
Shapely(polygon, points, area) ==
  (polygon /\ points \in DOMAIN geometry) => area = geometry[points]

\* lines 200-352: the body of "for testvar in test_varnames" for one sensor
SensorStep ==
  /\ pc = "sensor"
  /\ \E area \in 0..MaxArea :
       \E L \in {SensorBody(Locals, test_varnames[tv], area)} :
          /\ Shapely(L.polygon, L.points, area)
          /\ geometry' = IF L.polygon /\ L.points \notin DOMAIN geometry
                            THEN geometry @@ (L.points :> area) ELSE geometry
          /\ ds' = L.ds
          /\ ds2' = L.ds2
          /\ disk' = L.disk
          /\ f2skip' = L.f2skip
          /\ status' = L.status
          /\ summary' = L.summary
          /\ errlog' = L.errlog
          /\ exc' = L.exc
          /\ consumed' = L.consumed
          /\ reads' = L.reads
          /\ writes' = L.writes
          /\ last' = [dep |-> d, e |-> e, i |-> i, sensor |-> test_varnames[tv],
                      polygon |-> L.polygon, area |-> L.area, flag |-> L.flag,
                      counted |-> [c \in DOMAIN ZeroCounters |->
                                     L.summary[test_varnames[tv]][c]
                                       - summary[test_varnames[tv]][c]]]
          /\ IF L.exc # "" THEN /\ pc' = "raised"
                                /\ UNCHANGED <<tv, e>>
             ELSE IF tv < Len(test_varnames) THEN /\ tv' = tv + 1
                                                  /\ UNCHANGED <<pc, e>>
             ELSE /\ pc' = "file"
                  /\ e' = e + 1
                  /\ UNCHANGED tv
  /\ UNCHANGED <<deployments, d, i, skip, config_dict, opened, run, earlier>>

\* lines 354-364: the file loop is over; the summary is logged
Summarize ==
  /\ pc = "file"
  /\ e > Len(ncfiles)
  /\ pc' = "deployment"
  /\ d' = d + 1
  /\ UNCHANGED <<deployments, disk, e, i, tv, skip, f2skip, ds, ds2, config_dict, status,
                 summary, errlog, exc, opened, consumed, reads, writes, last,
                 geometry, run, earlier>>

\* line 365: return status
Return ==
  /\ pc = "deployment"
  /\ d > Len(deployments)
  /\ pc' = "done"
  /\ UNCHANGED <<deployments, disk, d, e, i, tv, skip, f2skip, ds, ds2, config_dict, status,
                 summary, errlog, exc, opened, consumed, reads, writes, last,
                 geometry, run, earlier>>

Next == DeploymentStep \/ FileStep \/ SensorStep \/ Summarize \/ Return

\* the files and sensors save_ds has written so far
Written == {<<writes[k].dep, writes[k].path, writes[k].sensor>> : k \in Indices(writes)}

\* line 99 and up: main starts again, with fresh locals, over the files named
\* files with files_on_disk in the directories; what the run before it left is
\* kept for comparison
Restart(files, files_on_disk, changed) ==
  /\ deployments' = files
  /\ disk' = files_on_disk
  /\ earlier' = [disk |-> disk, summary |-> summary, written |-> Written,
                  changed |-> changed]
  /\ run' = 2
  /\ pc' = "deployment"
  /\ d' = 1
  /\ e' = 0
  /\ i' = 0
  /\ tv' = 1
  /\ skip' = 0
  /\ f2skip' = {}
  /\ ds' = {}
  /\ ds2' = {}
  /\ config_dict' = [s \in Sensors |-> {}]
  /\ status' = 0
  /\ summary' = ZeroSummary
  /\ errlog' = {}
  /\ exc' = ""
  /\ opened' = <<>>
  /\ consumed' = <<>>
  /\ reads' = <<>>
  /\ writes' = <<>>
  /\ last' = NoStep
  /\ UNCHANGED geometry

\* the script is run a second time over the files the first run left
RunAgain ==
  /\ run = 1
  /\ pc \in {"done", "raised"}
  /\ Restart(deployments, disk, "")

NextAgain == Next \/ RunAgain

\* ----------------------------------------------------------------- inputs
Thresholds(t, s, f) == [test_threshold |-> t, suspect_threshold |-> s, fail_threshold |-> f]
Config(th) == {[s \in Sensors |-> {th}]}
NoConfig == {}
Usual == Thresholds(1, 1, 2)

Variable(data, qartod) == [present |-> TRUE, data |-> data, qartod |-> qartod]
NoVariable == [present |-> FALSE, data |-> <<>>, qartod |-> {}]
Nominal == Variable(<<1, 3>>, {})

Profile(gap, pressure, cond, temp) ==
  [readable |-> TRUE, gap |-> gap, pressure |-> pressure,
   vars |-> [s \in Sensors |-> IF s = "conductivity" THEN cond ELSE temp]]
Unreadable ==
  [readable |-> FALSE, gap |-> 1, pressure |-> <<>>, vars |-> [s \in Sensors |-> NoVariable]]

Down == <<0, 10>>
Up == <<10, 0>>

Lists(P, n) == UNION {[1..k -> P] : k \in 1..n}

\* the state main starts its deployment loop in
Start(args) ==
  /\ deployments = args
  /\ disk = [dep \in DOMAIN args |->
              [j \in DOMAIN args[dep].files |->
                 IF args[dep].files[j].readable
                   THEN {[dep |-> dep, src |-> j, hyst |-> [s \in Sensors |-> NoFlags]]}
                   ELSE {}]]
  /\ pc = "deployment"
  /\ d = 1
  /\ e = 0
  /\ i = 0
  /\ tv = 1
  /\ skip = 0
  /\ f2skip = {}
  /\ ds = {}
  /\ ds2 = {}
  /\ config_dict = [s \in Sensors |-> {}]
  /\ status = 0
  /\ summary = ZeroSummary
  /\ errlog = {}
  /\ exc = ""
  /\ opened = <<>>
  /\ consumed = <<>>
  /\ reads = <<>>
  /\ writes = <<>>
  /\ last = NoStep
  /\ geometry = NoAreas
  /\ run = 1
  /\ earlier = NoRun

\* The driver family: one deployment, up to MaxFiles files that differ in
\* readability, orientation and the sensors they hold.
DriverProfiles ==
  {Unreadable} \cup
  {Profile(1, p, v[1], v[2]) :
     p \in {Down, Up},
     v \in {<<Nominal, Nominal>>, <<NoVariable, Nominal>>, <<Nominal, NoVariable>>}}

Init ==
  \E files \in Lists(DriverProfiles, MaxFiles) :
    Start(<<[located |-> TRUE, config |-> Config(Usual), files |-> files]>>)

Spec == Init /\ [][Next]_vars

\* The pair family: one deployment of two files that differ in their pressure
\* trace, conductivity values, upstream QARTOD flags and the gap between them,
\* under three threshold configurations.
FirstPressures == {<<0, 10>>, <<0, 5>>, <<-3, 5>>, <<10, 0>>, <<5, 5>>, <<NaN, NaN>>}
SecondPressures == {<<10, 0>>, <<5, 0>>, <<5, -3>>, <<0, 10>>, <<5, 5>>, <<NaN, NaN>>}
PairData == {<<1, 3>>, <<1, 1>>, <<1, NaN>>, <<NaN, NaN>>}
PairQartod == {{}, {<<GOOD, FAIL>>}, {<<SUSPECT, GOOD>>, <<GOOD, FAIL>>}}
PairGaps == {PairWindow - 1, PairWindow}
PairThresholds == {Usual, Thresholds(2, 1, 2), Thresholds(1, 2, 1)}

InitPair ==
  \E p1 \in FirstPressures, p2 \in SecondPressures, c1 \in PairData, c2 \in PairData,
     q1 \in PairQartod, q2 \in PairQartod, gap \in PairGaps, th \in PairThresholds :
    Start(<<[located |-> TRUE, config |-> Config(th),
             files |-> <<Profile(1, p1, Variable(c1, q1), Nominal),
                         Profile(gap, p2, Variable(c2, q2), Nominal)>>]>>)

SpecPair == InitPair /\ [][Next]_vars

\* The multi family: up to MaxDeployments deployments that differ in whether
\* their directories are found, in their configuration and in their files.
DownFile == Profile(1, Down, Nominal, Nominal)
UpFile == Profile(1, Up, Nominal, Nominal)
MultiFiles ==
  {<<>>, <<DownFile>>, <<UpFile>>, <<DownFile, UpFile>>, <<DownFile, Unreadable>>,
   <<Unreadable, UpFile>>}
\* no config file; a config with both sensors; a config without the conductivity entry
MultiConfigs ==
  {NoConfig, Config(Usual),
   {[s \in Sensors |-> IF s = "conductivity" THEN {} ELSE {Usual}]}}
MultiDeployments ==
  {[located |-> FALSE, config |-> Config(Usual), files |-> <<DownFile>>]} \cup
  {[located |-> TRUE, config |-> c, files |-> f] : c \in MultiConfigs, f \in MultiFiles}

InitMulti == \E args \in Lists(MultiDeployments, MaxDeployments) : Start(args)

SpecMulti == InitMulti /\ [][Next]_vars

\* The rerun family: the pair family, and lists of up to MaxFiles files that are
\* unreadable, down or up, with both sensors or without conductivity.
AgainProfiles ==
  {Unreadable, DownFile, UpFile, Profile(1, Down, NoVariable, Nominal)}

InitAgain ==
  \/ InitPair
  \/ \E files \in Lists(AgainProfiles, MaxFiles) :
       Start(<<[located |-> TRUE, config |-> Config(Usual), files |-> files]>>)

SpecAgain == InitAgain /\ [][NextAgain]_vars

\* the files of a deployment list as they are before any run: readable or not,
\* without hysteresis variables
Fresh(args) ==
  [dep \in DOMAIN args |->
     [j \in DOMAIN args[dep].files |->
        IF args[dep].files[j].readable
          THEN {[dep |-> dep, src |-> j, hyst |-> [s \in Sensors |-> NoFlags]]}
          ELSE {}]]

\* the same file list with sensor b replaced by v in every readable file
WithSensor(args, b, v) ==
  [dep \in DOMAIN args |->
     [args[dep] EXCEPT !.files =
        [j \in DOMAIN @ |-> IF @[j].readable THEN [@[j] EXCEPT !.vars[b] = v] ELSE @[j]]]]

\* the script is run on a second file list that differs from the first in one
\* sensor only: that sensor is absent from every file, or nominal in every file
RunOther ==
  /\ run = 1
  /\ pc \in {"done", "raised"}
  /\ \E b \in Sensors, v \in {NoVariable, Nominal} :
       LET other == WithSensor(deployments, b, v)
       IN Restart(other, Fresh(other), b)

NextOther == Next \/ RunOther

\* The driver family, followed by a run on a list that differs in one sensor.
SpecOther == Init /\ [][NextOther]_vars

\* ============================================================== the claims
\* What the claims read of the inputs and of the files on disk.
File(dep, j) == deployments[dep].files[j]
Pristine(dep, j) == [dep |-> dep, src |-> j, hyst |-> [s \in Sensors |-> NoFlags]]
Persisted(dep, j, s) ==
  IF Bound(disk[dep][j]) THEN Val(disk[dep][j]).hyst[s] ELSE NoFlags
ValidPressure(f) == {k \in Indices(f.pressure) : ~IsNaN(f.pressure[k])}
ValidData(f, s) == {k \in Indices(f.vars[s].data) : ~IsNaN(f.vars[s].data[k])}
Usable(f, s) == f.readable /\ f.vars[s].present
\* a down-cast: first valid pressure below the last; an up-cast: above it
IsDownCast(f) ==
  /\ ValidPressure(f) # {}
  /\ f.pressure[SetMin(ValidPressure(f))] < f.pressure[SetMax(ValidPressure(f))]
IsUpCast(f) ==
  /\ ValidPressure(f) # {}
  /\ f.pressure[SetMin(ValidPressure(f))] > f.pressure[SetMax(ValidPressure(f))]
\* the spec's rule: UP is whatever is not DOWN
IsNotDown(f) == ValidPressure(f) # {} /\ ~IsDownCast(f)
AllFlags(flags, idx, v) == flags # NoFlags /\ \A k \in idx : flags[k] = v

\* C1: a file consumed as the second of a pairing attempt is not opened as
\* primary in any later iteration, and for each sensor no file is consumed as
\* second in two different iterations.
C1_ConsumedNeverPrimary ==
  /\ \A a \in Indices(consumed), b \in Indices(opened) :
       (consumed[a].dep = opened[b].dep /\ consumed[a].file = opened[b].file)
         => opened[b].e <= consumed[a].e
  /\ \A a \in Indices(consumed), b \in Indices(consumed) :
       (/\ consumed[a].dep = consumed[b].dep
        /\ consumed[a].file = consumed[b].file
        /\ consumed[a].sensor = consumed[b].sensor)
         => consumed[a].e = consumed[b].e

\* a file was consumed as second and a later iteration opened the file after it
C1_Witness ==
  \E a \in Indices(consumed), b \in Indices(opened) :
    /\ consumed[a].dep = opened[b].dep
    /\ opened[b].e = consumed[a].e + 1
    /\ opened[b].file = consumed[a].file + 1

\* The latest sensor step, read against the input files: its primary file, the
\* file after it, and the pair they make.
Stepped == last.dep # 0
LastFirst == File(last.dep, last.i)
LastSecond == File(last.dep, last.i + 1)
LastThresholds == Val(Val(deployments[last.dep].config)[last.sensor])
FirstFlags == Persisted(last.dep, last.i, last.sensor)
SecondFlags == Persisted(last.dep, last.i + 1, last.sensor)
FirstValid == ValidData(LastFirst, last.sensor)
SecondValid == ValidData(LastSecond, last.sensor)
\* the step's primary is a down-cast holding the sensor's data, and the next
\* file is a readable up-cast holding the sensor
DownThenUp ==
  /\ Stepped
  /\ last.i + 1 <= Len(deployments[last.dep].files)
  /\ Usable(LastFirst, last.sensor)
  /\ Usable(LastSecond, last.sensor)
  /\ FirstValid # {}
  /\ IsDownCast(LastFirst)
  /\ IsNotDown(LastSecond)
\* minutes from the last timestamp of the first file to the first of the second
PairGap == LastSecond.gap
\* the measurements left in both files once upstream SUSPECT/FAIL samples are masked
MaskedFirst == apply_qartod_qc(Pristine(last.dep, last.i), last.sensor)
MaskedSecond == apply_qartod_qc(Pristine(last.dep, last.i + 1), last.sensor)
PairRows ==
  Rows(Pristine(last.dep, last.i), MaskedFirst)
    \o Rows(Pristine(last.dep, last.i + 1), MaskedSecond)
\* a down/up pair inside the window with clean data in both files
ValidPair ==
  /\ DownThenUp
  /\ PairGap < PairWindow
  /\ HasData(MaskedFirst)
  /\ HasData(MaskedSecond)
  /\ PairRows # <<>>

\* C2: a down file followed within 5 minutes by an up file, with pressure_range
\* above 5 and data_range above test_threshold: one value of GOOD, SUSPECT or
\* FAIL is persisted at every valid-data index of both files.
C2_PairFlagsAgree ==
  (/\ ValidPair
   /\ PressureRange(PairRows) > MinPressureRange
   /\ DataRange(PairRows) > LastThresholds.test_threshold)
  => \E v \in {GOOD, SUSPECT, FAIL} :
       /\ AllFlags(FirstFlags, FirstValid, v)
       /\ AllFlags(SecondFlags, SecondValid, v)

\* such a pair was classified FAIL and both files carry it
C2_Witness ==
  /\ ValidPair
  /\ PressureRange(PairRows) > MinPressureRange
  /\ DataRange(PairRows) > LastThresholds.test_threshold
  /\ SecondValid # {}
  /\ AllFlags(FirstFlags, FirstValid, FAIL)
  /\ AllFlags(SecondFlags, SecondValid, FAIL)

\* C3 as stated: for every adjacent pair of files that are both down-casts or
\* both up-casts, the flags persisted for the first file are UNKNOWN at every
\* valid-data index.
C3_AdjacentSameOrientation ==
  \A dep \in DOMAIN deployments :
    \A j \in DOMAIN deployments[dep].files, s \in Sensors :
      (/\ j + 1 <= Len(deployments[dep].files)
       /\ Usable(File(dep, j), s)
       /\ File(dep, j + 1).readable
       /\ \/ IsDownCast(File(dep, j)) /\ IsDownCast(File(dep, j + 1))
          \/ IsUpCast(File(dep, j)) /\ IsUpCast(File(dep, j + 1))
       /\ Persisted(dep, j, s) # NoFlags)
      => \A k \in ValidData(File(dep, j), s) : Persisted(dep, j, s)[k] = UNKNOWN

\* C3 as amended: when the first file of such a pair is the primary of a driver
\* iteration, that iteration persists UNKNOWN at every valid-data index of it.
C3_PrimaryStaysUnknown ==
  (/\ Stepped
   /\ last.i + 1 <= Len(deployments[last.dep].files)
   /\ Usable(LastFirst, last.sensor)
   /\ LastSecond.readable
   /\ \/ IsDownCast(LastFirst) /\ IsDownCast(LastSecond)
      \/ IsUpCast(LastFirst) /\ IsUpCast(LastSecond))
  => (FirstValid # {} => AllFlags(FirstFlags, FirstValid, UNKNOWN))

\* a down primary followed by a down file has been flagged UNKNOWN
C3_WitnessDown ==
  /\ Stepped
  /\ last.i + 1 <= Len(deployments[last.dep].files)
  /\ Usable(LastFirst, last.sensor)
  /\ LastSecond.readable
  /\ IsDownCast(LastFirst) /\ IsDownCast(LastSecond)
  /\ AllFlags(FirstFlags, FirstValid, UNKNOWN)

\* C4: down then up, 5 minutes or more apart: both files are persisted UNKNOWN,
\* nothing is classified, and the second file is marked consumed and is not the
\* primary of a later iteration.
C4_FarApartUnknown ==
  (DownThenUp /\ PairGap >= PairWindow)
  => /\ AllFlags(FirstFlags, FirstValid, UNKNOWN)
     /\ AllFlags(SecondFlags, SecondValid, UNKNOWN)
     /\ ~last.polygon
     /\ last.flag = 0
     /\ \E a \in Indices(consumed) :
          consumed[a] = [dep |-> last.dep, e |-> last.e, file |-> last.i + 1,
                         sensor |-> last.sensor]
     /\ \A b \in Indices(opened) :
          (opened[b].dep = last.dep /\ opened[b].e > last.e)
            => opened[b].file > last.i + 1

\* such a pair was handled and the next iteration went past the second file
C4_Witness ==
  /\ DownThenUp
  /\ PairGap >= PairWindow
  /\ SecondValid # {}
  /\ AllFlags(SecondFlags, SecondValid, UNKNOWN)
  /\ pc = "file"
  /\ e = last.e + 2
  /\ i = last.i + 2

\* C5: a down/up pair inside the window whose pressure_range is 5 or less: both
\* files are persisted UNKNOWN and neither the polygon nor a classification is
\* reached, whatever data_range and the thresholds are.
C5_ShallowUnknown ==
  (ValidPair /\ PressureRange(PairRows) <= MinPressureRange)
  => /\ AllFlags(FirstFlags, FirstValid, UNKNOWN)
     /\ AllFlags(SecondFlags, SecondValid, UNKNOWN)
     /\ ~last.polygon
     /\ last.flag = 0

\* a shallow pair whose data_range is also within test_threshold was left UNKNOWN
C5_Witness ==
  /\ ValidPair
  /\ PressureRange(PairRows) <= MinPressureRange
  /\ DataRange(PairRows) <= LastThresholds.test_threshold
  /\ SecondValid # {}
  /\ AllFlags(FirstFlags, FirstValid, UNKNOWN)
  /\ AllFlags(SecondFlags, SecondValid, UNKNOWN)

\* what C6 promises of the latest step
AutoGood ==
  /\ AllFlags(FirstFlags, FirstValid, GOOD)
  /\ AllFlags(SecondFlags, SecondValid, GOOD)
  /\ ~last.polygon
  /\ last.counted = ZeroCounters

\* C6 as stated: a down/up pair inside the window whose data_range is within
\* test_threshold is persisted GOOD on both files, without the polygon and
\* without touching a counter.
C6_SmallRangeGood ==
  (ValidPair /\ DataRange(PairRows) <= LastThresholds.test_threshold) => AutoGood

\* C6 as amended: the same, for a pair whose pressure_range is above 5.
C6_DeepSmallRangeGood ==
  (/\ ValidPair
   /\ PressureRange(PairRows) > MinPressureRange
   /\ DataRange(PairRows) <= LastThresholds.test_threshold)
  => AutoGood

\* a deep pair whose data_range equals test_threshold was persisted GOOD
C6_Witness ==
  /\ ValidPair
  /\ PressureRange(PairRows) > MinPressureRange
  /\ DataRange(PairRows) = LastThresholds.test_threshold
  /\ SecondValid # {}
  /\ AutoGood

\* C7: the pair is FAIL exactly when area > data_range * fail_threshold,
\* otherwise SUSPECT exactly when area > data_range * suspect_threshold,
\* otherwise GOOD, and that flag is the one persisted.
C7_Classification ==
  last.polygon =>
    LET over_fail == last.area > DataRange(PairRows) * LastThresholds.fail_threshold
        over_suspect == last.area > DataRange(PairRows) * LastThresholds.suspect_threshold
    IN /\ (last.flag = FAIL) = over_fail
       /\ (last.flag = SUSPECT) = (~over_fail /\ over_suspect)
       /\ (last.flag = GOOD) = (~over_fail /\ ~over_suspect)
       /\ AllFlags(FirstFlags, FirstValid, last.flag)

\* an area equal to the fail cutoff gave SUSPECT
C7_WitnessTie ==
  /\ last.polygon
  /\ last.area = DataRange(PairRows) * LastThresholds.fail_threshold
  /\ last.flag = SUSPECT
  /\ AllFlags(FirstFlags, FirstValid, SUSPECT)

\* C8: in every persisted hysteresis flag array, a sample whose measurement is
\* NaN carries MISSING (and the array is as long as the measurement series).
C8_MissingKept ==
  \A dep \in DOMAIN disk :
    \A j \in DOMAIN disk[dep], s \in Sensors :
      (Bound(disk[dep][j]) /\ Val(disk[dep][j]).hyst[s] # NoFlags)
      => LET dataset == Val(disk[dep][j])
         IN /\ Len(dataset.hyst[s]) = Len(Data(dataset, s))
            /\ \A k \in Indices(Data(dataset, s)) :
                 IsNaN(Data(dataset, s)[k]) => dataset.hyst[s][k] = MISSING

\* a classified pair whose first file has a NaN sample: FAIL beside MISSING
C8_Witness ==
  /\ last.polygon
  /\ last.flag = FAIL
  /\ \E k \in Indices(LastFirst.vars[last.sensor].data) :
       /\ IsNaN(LastFirst.vars[last.sensor].data[k])
       /\ FirstFlags[k] = MISSING
  /\ \E k \in FirstValid : FirstFlags[k] = FAIL

\* C9: at the end of a run every readable file that holds the sensor variable
\* carries the sensor's hysteresis flag variable: the variable is never omitted.
C9_FlagNeverOmitted ==
  pc = "done" =>
    \A dep \in DOMAIN deployments :
      \A j \in DOMAIN deployments[dep].files, s \in Sensors :
        (deployments[dep].located /\ Bound(deployments[dep].config)
         /\ Usable(File(dep, j), s))
        => Persisted(dep, j, s) # NoFlags

\* C10: once a file could not be read, a sensor variable was missing or the
\* configuration was invalid, the status is non-zero from then on and the run
\* goes on: no exception ends it.
C10_StatusSetAndRunGoesOn ==
  (errlog \cap {"read", "variable", "config"} # {})
  => (status # 0 /\ pc # "raised")

\* what the first run left in file j of deployment dep for sensor s
EarlierPersisted(dep, j, s) ==
  IF Bound(earlier.disk[dep][j]) THEN Val(earlier.disk[dep][j]).hyst[s] ELSE NoFlags

\* C11: a second run over the files the first run flagged, with the same data,
\* upstream flags and configuration, leaves in every file and for every sensor
\* the flag array the first run left, and by its end has written the same files
\* for the same sensors.
C11_SecondRunSameFlags ==
  run = 2 =>
    /\ \A dep \in DOMAIN disk :
         \A j \in DOMAIN disk[dep], s \in Sensors :
           Persisted(dep, j, s) = EarlierPersisted(dep, j, s)
    /\ pc \in {"done", "raised"} => Written = earlier.written

\* the second run is over and has written again a pair the first run flagged FAIL
C11_Witness ==
  /\ run = 2
  /\ pc = "done"
  /\ \E dep \in DOMAIN disk :
       \E j \in DOMAIN disk[dep], s \in Sensors :
         /\ <<dep, j, s>> \in Written
         /\ ValidData(File(dep, j), s) # {}
         /\ AllFlags(Persisted(dep, j, s), ValidData(File(dep, j), s), FAIL)
         /\ Persisted(dep, j, s) = EarlierPersisted(dep, j, s)

\* C12: of two runs over file lists that agree on pressure, timestamps and
\* sensor A and differ in sensor B only, both leave the same flag arrays for A
\* in the same files, write A's flag variable to the same files and end with
\* the same summary counters for A.
C12_SensorsIndependent ==
  (run = 2 /\ pc \in {"done", "raised"}) =>
    \A s \in Sensors \ {earlier.changed} :
      /\ \A dep \in DOMAIN disk :
           \A j \in DOMAIN disk[dep] : Persisted(dep, j, s) = EarlierPersisted(dep, j, s)
      /\ {w \in Written : w[3] = s} = {w \in earlier.written : w[3] = s}
      /\ summary[s] = earlier.summary[s]

\* C13: within one run no file is read twice and no file is written twice.
C13_ReadOnceWrittenOnce ==
  /\ \A a \in Indices(reads), b \in Indices(reads) :
       (reads[a].dep = reads[b].dep /\ reads[a].file = reads[b].file) => a = b
  /\ \A a \in Indices(writes), b \in Indices(writes) :
       (writes[a].dep = writes[b].dep /\ writes[a].path = writes[b].path) => a = b

\* a profile without a valid pressure sample or without a valid sample of sensor s
Degenerate(f, s) == ValidPressure(f) = {} \/ ValidData(f, s) = {}

\* C14: when the primary of a step is degenerate, or the primary is a down-cast
\* with data and the file it looks ahead to is degenerate, the step raises
\* nothing and leaves UNKNOWN at the primary's valid samples.
C14_DegenerateNeverRaises ==
  (/\ Stepped
   /\ Usable(LastFirst, last.sensor)
   /\ \/ Degenerate(LastFirst, last.sensor)
      \/ /\ last.i + 1 <= Len(deployments[last.dep].files)
         /\ IsDownCast(LastFirst)
         /\ Usable(LastSecond, last.sensor)
         /\ Degenerate(LastSecond, last.sensor))
  => /\ exc = ""
     /\ FirstValid # {} => AllFlags(FirstFlags, FirstValid, UNKNOWN)

\* the deployment's threshold configuration is missing or lacks a sensor's entry
InvalidConfig(dep) ==
  \/ ~Bound(deployments[dep].config)
  \/ \E s \in Sensors : ~Bound(Val(deployments[dep].config)[s])

\* C15: a deployment whose threshold configuration is missing or invalid does
\* not end the run: no exception leaves main while it is processed, and once
\* the driver has moved past it the status is non-zero.
C15_ConfigErrorNextDeployment ==
  \A dep \in DOMAIN deployments :
    (deployments[dep].located /\ InvalidConfig(dep))
    => /\ d = dep => pc # "raised"
       /\ d > dep => status # 0

\* the step's primary is a down-cast holding valid samples of the sensor, and
\* a file follows it
DownWithNext ==
  /\ Stepped
  /\ last.i + 1 <= Len(deployments[last.dep].files)
  /\ Usable(LastFirst, last.sensor)
  /\ FirstValid # {}
  /\ IsDownCast(LastFirst)
\* file i+1 was marked consumed (f2skip += 1) in the step's iteration
SecondConsumed ==
  \E a \in Indices(consumed) :
    consumed[a].dep = last.dep /\ consumed[a].e = last.e /\ consumed[a].file = last.i + 1
\* the iteration after the step's, if it has opened a file, opened file i+1
NextPrimaryIsSecond ==
  \A b \in Indices(opened) :
    (opened[b].dep = last.dep /\ opened[b].e = last.e + 1) => opened[b].file = last.i + 1

\* C16: the primary is a down-cast and the next file cannot be read: the
\* primary is persisted UNKNOWN, the status is non-zero, the next file is not
\* marked consumed and is the primary of the next iteration.
C16_UnreadableSecondRetried ==
  (DownWithNext /\ ~LastSecond.readable)
  => /\ exc = ""
     /\ AllFlags(FirstFlags, FirstValid, UNKNOWN)
     /\ status # 0
     /\ ~SecondConsumed
     /\ NextPrimaryIsSecond

\* the primary open recorded as opened[b] failed
FailedOpen(b) ==
  ~\E r \in Indices(reads) :
     reads[r] = [dep |-> opened[b].dep, e |-> opened[b].e, file |-> opened[b].file,
                 role |-> "first"]
\* iteration n of the file loop of deployment dep has tried to open its primary
IterationStarted(dep, n) ==
  \/ d > dep
  \/ d = dep /\ e > n
  \/ d = dep /\ e = n /\ pc \in {"sensor", "raised"}

\* C17: when the primary of an iteration cannot be read, the status is
\* non-zero, nothing is marked consumed in that iteration, and the next
\* iteration opens the file that follows it.
C17_UnreadablePrimarySkipped ==
  \A b \in Indices(opened) :
    FailedOpen(b) =>
      /\ status # 0
      /\ \A a \in Indices(consumed) :
           ~(consumed[a].dep = opened[b].dep /\ consumed[a].e = opened[b].e)
      /\ (/\ opened[b].file + 1 <= Len(deployments[opened[b].dep].files)
          /\ IterationStarted(opened[b].dep, opened[b].e + 1))
         => \E c \in Indices(opened) :
              opened[c] = [dep |-> opened[b].dep, e |-> opened[b].e + 1,
                           file |-> opened[b].file + 1]

\* every file written in the step's iteration is the step's primary
OnlyPrimaryWritten ==
  \A w \in Indices(writes) :
    (writes[w].dep = last.dep /\ writes[w].e = last.e) => writes[w].path = last.i

\* C18: the primary is a down-cast and the next file is a down-cast too: the
\* primary is persisted UNKNOWN, the next file is neither written nor marked
\* consumed in that iteration, and it is the primary of the next iteration.
C18_DownDownKeepsSecond ==
  (DownWithNext /\ LastSecond.readable /\ IsDownCast(LastSecond))
  => /\ exc = ""
     /\ AllFlags(FirstFlags, FirstValid, UNKNOWN)
     /\ OnlyPrimaryWritten
     /\ ~SecondConsumed
     /\ NextPrimaryIsSecond
     /\ IterationStarted(last.dep, last.e + 1)
          => \E c \in Indices(opened) :
               opened[c] = [dep |-> last.dep, e |-> last.e + 1, file |-> last.i + 1]

\* down, down, up: the second file, primary of the iteration after the one that
\* left the first file UNKNOWN, has been paired with the third and classified
C18_Witness ==
  /\ Stepped
  /\ last.i >= 2
  /\ Usable(File(last.dep, last.i - 1), last.sensor)
  /\ IsDownCast(File(last.dep, last.i - 1))
  /\ IsDownCast(LastFirst)
  /\ AllFlags(Persisted(last.dep, last.i - 1, last.sensor),
              ValidData(File(last.dep, last.i - 1), last.sensor), UNKNOWN)
  /\ \E b \in Indices(opened), c \in Indices(opened) :
       /\ opened[b] = [dep |-> last.dep, e |-> last.e - 1, file |-> last.i - 1]
       /\ opened[c] = [dep |-> last.dep, e |-> last.e, file |-> last.i]
  /\ last.polygon
  /\ AllFlags(FirstFlags, FirstValid, last.flag)
  /\ AllFlags(SecondFlags, SecondValid, last.flag)

\* C19: the primary is a down-cast and the next file is readable but lacks the
\* sensor variable: only the primary is persisted (UNKNOWN) for the sensor, the
\* error is logged with a non-zero status, unknown_profiles grows by 1, this
\* path does not mark the next file consumed, and the next iteration's primary
\* is the next file.
C19_MissingInSecond ==
  (DownWithNext /\ LastSecond.readable /\ ~LastSecond.vars[last.sensor].present)
  => /\ exc = ""
     /\ AllFlags(FirstFlags, FirstValid, UNKNOWN)
     /\ SecondFlags = NoFlags
     /\ "variable" \in errlog /\ status # 0
     /\ last.counted = [ZeroCounters EXCEPT !.unknown_profiles = 1]
     /\ \A a \in Indices(consumed) :
          ~(consumed[a].dep = last.dep /\ consumed[a].e = last.e
            /\ consumed[a].sensor = last.sensor)
     /\ NextPrimaryIsSecond

\* the step's primary is the last file of its deployment, a down-cast holding
\* valid samples of the sensor, in a deployment whose thresholds are configured
LastFileDown ==
  /\ Stepped
  /\ ~InvalidConfig(last.dep)
  /\ last.i = Len(deployments[last.dep].files)
  /\ Usable(LastFirst, last.sensor)
  /\ FirstValid # {}
  /\ IsDownCast(LastFirst)
\* no file beyond the end of a list was opened, read or marked consumed
NoReadPastEnd ==
  /\ \A b \in Indices(opened) : opened[b].file <= Len(deployments[opened[b].dep].files)
  /\ \A r \in Indices(reads) : reads[r].file <= Len(deployments[reads[r].dep].files)
  /\ \A a \in Indices(consumed) : consumed[a].file <= Len(deployments[consumed[a].dep].files)

\* C20: the primary is a down-cast and the last file of the list: it is
\* persisted UNKNOWN for the sensor, unknown_profiles grows by 1, nothing past
\* the end of the list is read and no exception ends the run.
C20_LastDownUnknown ==
  LastFileDown
  => /\ exc = "" /\ pc # "raised"
     /\ AllFlags(FirstFlags, FirstValid, UNKNOWN)
     /\ last.counted = [ZeroCounters EXCEPT !.unknown_profiles = 1]
     /\ OnlyPrimaryWritten
     /\ NoReadPastEnd

\* the run has returned after leaving a last down file UNKNOWN for both sensors
C20_Witness ==
  /\ pc = "done"
  /\ LastFileDown
  /\ last.sensor = "temperature"
  /\ \A s \in Sensors :
       /\ Usable(LastFirst, s)
       /\ AllFlags(Persisted(last.dep, last.i, s), ValidData(LastFirst, s), UNKNOWN)
       /\ summary[s].unknown_profiles >= 1

\* file j of deployment dep was opened as the primary of an iteration
WasPrimary(dep, j) ==
  \E b \in Indices(opened) : opened[b].dep = dep /\ opened[b].file = j
\* file j of deployment dep was marked consumed as the second of a pairing attempt
WasConsumed(dep, j) ==
  \E a \in Indices(consumed) : consumed[a].dep = dep /\ consumed[a].file = j
\* every file of every deployment of the run can be read
AllReadable ==
  \A dep \in DOMAIN deployments :
    \A j \in DOMAIN deployments[dep].files : File(dep, j).readable
\* the file loop of deployment dep has run to its end
Walked(dep) ==
  /\ d > dep
  /\ deployments[dep].located
  /\ Bound(deployments[dep].config)

\* C21: no file is opened as primary in two iterations, and once the file loop
\* of a deployment is over in a run where every file is readable, each of its
\* files has been either the primary of an iteration or consumed as a second,
\* and not both.
C21_EachFileOnce ==
  /\ \A b \in Indices(opened), c \in Indices(opened) :
       (opened[b].dep = opened[c].dep /\ opened[b].file = opened[c].file) => b = c
  /\ AllReadable =>
       \A dep \in DOMAIN deployments :
         Walked(dep) =>
           \A j \in DOMAIN deployments[dep].files :
             WasPrimary(dep, j) # WasConsumed(dep, j)

\* the step's iteration read the file after the primary as a lookahead second
LookedAhead ==
  \E r \in Indices(reads) :
    reads[r] = [dep |-> last.dep, e |-> last.e, file |-> last.i + 1, role |-> "second"]

\* C22: a profile is handled as DOWN exactly when its first valid pressure is
\* below its last, and as UP otherwise, as primary and as second alike: the
\* primary looks ahead exactly when it is such a down-cast, and the second is
\* consumed exactly when it is not.
C22_OrientationRule ==
  (/\ Stepped
   /\ ~InvalidConfig(last.dep)
   /\ last.i + 1 <= Len(deployments[last.dep].files)
   /\ Usable(LastFirst, last.sensor)
   /\ FirstValid # {}
   /\ ValidPressure(LastFirst) # {}
   /\ Usable(LastSecond, last.sensor)
   /\ ValidPressure(LastSecond) # {})
  => /\ IsDownCast(LastFirst) <=> LookedAhead
     /\ IsDownCast(LastFirst) => (IsDownCast(LastSecond) <=> ~SecondConsumed)

\* the pressures of the pair's samples that have both a pressure and, after
\* masking, a measurement
PresentPressures ==
  {LastFirst.pressure[k] :
     k \in {n \in Indices(MaskedFirst) :
              ~IsNaN(LastFirst.pressure[n]) /\ ~IsNaN(MaskedFirst[n])}}
  \cup
  {LastSecond.pressure[k] :
     k \in {n \in Indices(MaskedSecond) :
              ~IsNaN(LastSecond.pressure[n]) /\ ~IsNaN(MaskedSecond[n])}}
RawRange == SetMax(PresentPressures) - SetMin(PresentPressures)
ClampedRange ==
  LET clamped == {IF p < 0 THEN 0 ELSE p : p \in PresentPressures}
  IN SetMax(clamped) - SetMin(clamped)

\* C23: the pressure_range the step decides on is the largest minus the
\* smallest pressure of the pair's present samples, negative pressures counted
\* as 0: at 5 or less both files are left UNKNOWN and nothing is classified,
\* above 5 a flag is assigned.
C23_ClampedPressureRange ==
  ValidPair =>
    /\ PressureRange(PairRows) = ClampedRange
    /\ ClampedRange <= MinPressureRange =>
         /\ AllFlags(FirstFlags, FirstValid, UNKNOWN)
         /\ AllFlags(SecondFlags, SecondValid, UNKNOWN)
         /\ ~last.polygon
         /\ last.flag = 0
    /\ ClampedRange > MinPressureRange =>
         /\ last.flag \in {GOOD, SUSPECT, FAIL}
         /\ AllFlags(FirstFlags, FirstValid, last.flag)
         /\ AllFlags(SecondFlags, SecondValid, last.flag)

\* a pair whose raw pressures span more than 5 only because of a negative
\* value was left UNKNOWN
C23_Witness ==
  /\ ValidPair
  /\ RawRange > MinPressureRange
  /\ ClampedRange <= MinPressureRange
  /\ SecondValid # {}
  /\ AllFlags(FirstFlags, FirstValid, UNKNOWN)
  /\ AllFlags(SecondFlags, SecondValid, UNKNOWN)

\* the samples of sensor s in file f that are not NaN and that no upstream
\* '<s>_qartod' variable marks SUSPECT or FAIL
Remaining(f, s) ==
  {k \in ValidData(f, s) :
     \A q \in f.vars[s].qartod : q[k] # SUSPECT /\ q[k] # FAIL}
\* the datasets persisted in the step's two files hold the files' own measurements
DataUnchanged ==
  /\ Bound(disk[last.dep][last.i])
  /\ Data(Val(disk[last.dep][last.i]), last.sensor) = LastFirst.vars[last.sensor].data
  /\ Bound(disk[last.dep][last.i + 1])
  /\ Data(Val(disk[last.dep][last.i + 1]), last.sensor) = LastSecond.vars[last.sensor].data

\* C24: a down/up pair inside the window.  If masking leaves one of the two
\* profiles without a measurement, both files are persisted UNKNOWN,
\* unknown_profiles grows by 2 and the second file is marked consumed.  In
\* every case the persisted measurements are the files' own, and a classified
\* flag is written at every sample that was not NaN, masked or not.
C24_MaskedPairUnknown ==
  (DownThenUp /\ PairGap < PairWindow)
  => /\ (Remaining(LastFirst, last.sensor) = {} \/ Remaining(LastSecond, last.sensor) = {})
          => /\ AllFlags(FirstFlags, FirstValid, UNKNOWN)
             /\ AllFlags(SecondFlags, SecondValid, UNKNOWN)
             /\ ~last.polygon
             /\ last.flag = 0
             /\ last.counted = [ZeroCounters EXCEPT !.unknown_profiles = 2]
             /\ \E a \in Indices(consumed) :
                  consumed[a] = [dep |-> last.dep, e |-> last.e, file |-> last.i + 1,
                                 sensor |-> last.sensor]
     /\ exc = "" => DataUnchanged
     /\ last.flag # 0
          => /\ AllFlags(FirstFlags, FirstValid, last.flag)
             /\ AllFlags(SecondFlags, SecondValid, last.flag)

\* two upstream flag variables together mask every sample of the first file,
\* and the pair was left UNKNOWN and consumed
C24_Witness ==
  /\ DownThenUp
  /\ PairGap < PairWindow
  /\ Remaining(LastFirst, last.sensor) = {}
  /\ Cardinality(LastFirst.vars[last.sensor].qartod) = 2
  /\ \A q \in LastFirst.vars[last.sensor].qartod :
       \E k \in FirstValid : q[k] # SUSPECT /\ q[k] # FAIL
  /\ Remaining(LastSecond, last.sensor) # {}
  /\ AllFlags(FirstFlags, FirstValid, UNKNOWN)
  /\ AllFlags(SecondFlags, SecondValid, UNKNOWN)
  /\ SecondConsumed

\* the files of deployment dep whose persisted flag array for sensor s contains v
FilesHolding(dep, s, v) ==
  {j \in DOMAIN deployments[dep].files :
     \E k \in DOMAIN Persisted(dep, j, s) : Persisted(dep, j, s)[k] = v}

\* C25: at the end of a run over one deployment in which every file is
\* readable, each sensor's counters are the numbers of files whose persisted
\* flag array contains UNKNOWN, SUSPECT and FAIL; failed and suspect counts are
\* even and the three sum to at most the number of files.
C25_CountersMatchFlags ==
  (pc = "done" /\ Len(deployments) = 1 /\ Walked(1) /\ AllReadable)
  => \A s \in Sensors :
       /\ summary[s].unknown_profiles = Cardinality(FilesHolding(1, s, UNKNOWN))
       /\ summary[s].suspect_profiles = Cardinality(FilesHolding(1, s, SUSPECT))
       /\ summary[s].failed_profiles = Cardinality(FilesHolding(1, s, FAIL))
       /\ summary[s].suspect_profiles % 2 = 0
       /\ summary[s].failed_profiles % 2 = 0
       /\ summary[s].unknown_profiles + summary[s].suspect_profiles
            + summary[s].failed_profiles <= Len(deployments[1].files)

\* C26: every write to a path persists the dataset that was read from that
\* path in the same iteration.
C26_WritesOwnDataset ==
  \A w \in Indices(writes) :
    /\ writes[w].from = <<writes[w].dep, writes[w].path>>
    /\ \E r \in Indices(reads) :
         /\ reads[r].dep = writes[w].dep
         /\ reads[r].e = writes[w].e
         /\ reads[r].file = writes[w].path

====
